---- MODULE Spec2Model ----
(***************************************************************************)
(* A model of the generation runners of src/classes/ga: Mating.__call__    *)
(* with its operator bb_lk_exchange (mating.py) and Mutation.__call__ with *)
(* its operator random_bb (mutation.py).                                   *)
(*                                                                         *)
(* One behaviour follows one runner object (`kind` says of which class)    *)
(* through successive invocations on a population.  The two classes share  *)
(* no state: each object owns its n_calls and builds its own output.       *)
(*                                                                         *)
(* Population and Cage live outside src/; the operators that stand for     *)
(* them (Cage3, Cage4, DomainEq, Contains, add_members, difference) follow *)
(* the description of Collection and Candidate in spec.md.                 *)
(***************************************************************************)
EXTENDS Naturals, Integers, Sequences, FiniteSets, TLC

VARIABLES
    kind,           \* class of the runner object: "Mating" or "Mutation"
    func_name,      \* self.func_data.name
    database,       \* self.func_data.params["database"]: os.listdir(database)
    num_target,     \* self.num_matings / self.num_mutations
    n_calls,        \* self.n_calls
    population,     \* the argument of __call__: the parent Collection
    pc,             \* position inside __call__
    parent_pool,    \* what the selection generator has still to yield
    endless,        \* the generator never ends: it yields `selected` over and over
    func,           \* local func: what getattr returned
    parents,        \* the selection group of the current iteration
    offspring,      \* local offspring / mutant: what the operator returned
    offspring_pop,  \* members of offspring_pop / mutant_pop
    num_count,      \* local num_matings / num_mutations
    result,         \* members of the returned Population
    selected,       \* history: the whole sequence select() stands for
    log,            \* history: outcome of each attempt of this invocation
    generated,      \* history: name and counter of every Cage constructed
    dispatched      \* history: number of operator dispatches ever made

vars == <<kind, func_name, database, num_target, n_calls, population, pc,
          parent_pool, endless, func, parents, offspring, offspring_pop, num_count,
          result, selected, log, generated, dispatched>>

(***************************************************************************)
(* Bounds of the model.                                                    *)
(***************************************************************************)
MaxCalls == 4     \* invocations start only while n_calls stays within it
MaxGroups == 2    \* length of an arbitrary selection sequence
MaxTarget == 2    \* largest num_matings / num_mutations

(***************************************************************************)
(* Candidates.  A component is a BuildingBlock or a Linker built from a    *)
(* file; a cage has two component slots, the type of its topology, the     *)
(* name of its optimize function and its artifact path.                    *)
(***************************************************************************)
BuildingBlock(file) == [type |-> "BuildingBlock", file |-> file]

Linker(file) == [type |-> "Linker", file |-> file]

\* Cage(building_blocks, topology, path), as mating.py calls it.
Cage3(building_blocks, topology, path) ==
    [building_blocks |-> building_blocks, topology |-> topology,
     optimize |-> "", name |-> path, nargs |-> 3]

\* Cage(building_blocks, topology, optimize name, path), as mutation.py calls it.
Cage4(building_blocks, topology, optimize, path) ==
    [building_blocks |-> building_blocks, topology |-> topology,
     optimize |-> optimize, name |-> path, nargs |-> 4]

\* Domain equality of candidates: same components, same topology type.
DomainEq(a, b) ==
    /\ a.building_blocks = b.building_blocks
    /\ a.topology = b.topology

\* mol in population
Contains(members, mol) == \E i \in 1..Len(members) : DomainEq(members[i], mol)

\* Collection.add: members already present are skipped silently.
RECURSIVE add_members(_, _)
add_members(members, mols) ==
    IF mols = <<>> THEN members
    ELSE add_members(
             IF Contains(members, Head(mols)) THEN members
             ELSE Append(members, Head(mols)),
             Tail(mols))

\* Collection.difference: the members of other are removed by equality.
RECURSIVE difference(_, _)
difference(members, other) ==
    IF members = <<>> THEN <<>>
    ELSE IF Contains(other, Head(members)) THEN difference(Tail(members), other)
    ELSE <<Head(members)>> \o difference(Tail(members), other)

(***************************************************************************)
(* Names.  str.format writes an integer in decimal; a name is the sequence *)
(* of the template's literal pieces and the digits written between them.   *)
(***************************************************************************)
DigitChar(d) == <<"0", "1", "2", "3", "4", "5", "6", "7", "8", "9">>[d + 1]

RECURSIVE Digits(_)
Digits(n) ==
    IF n < 10 THEN <<DigitChar(n)>>
    ELSE Digits(n \div 10) \o <<DigitChar(n % 10)>>

\* os.path.join(os.getcwd(), name)
PathJoinCwd(name) == <<"cwd/">> \o name

\* Variant of MatingName: a template without the pair field.
MatingNameDropsPair(n, index, pair) ==
    <<"mating_">> \o Digits(n) \o <<"_topology_">> \o Digits(index)
        \o <<"_offspring.mol">>

\* "mating_{0}_topology_{1}_offspring_{2}.mol".format(n, index, pair)
MatingName(n, index, pair) ==
    <<"mating_">> \o Digits(n) \o <<"_topology_">> \o Digits(index)
        \o <<"_offspring_">> \o Digits(pair) \o <<".mol">>

\* "mutation_{0}.mol".format(n)
MutationName(n) == <<"mutation_">> \o Digits(n) \o <<".mol">>

(***************************************************************************)
(* The parent population and what the selector may yield from it.          *)
(***************************************************************************)
P1 == Cage3(<<BuildingBlock("b1"), Linker("l1")>>, "T1", PathJoinCwd(<<"p1.mol">>))

P2 == Cage3(<<Linker("l2"), BuildingBlock("b2")>>, "T1", PathJoinCwd(<<"p2.mol">>))

P3 == Cage3(<<BuildingBlock("b1"), BuildingBlock("b2")>>, "T2", PathJoinCwd(<<"p3.mol">>))

Population0 == <<P1, P2, P3>>

\* Selection groups of population.select('mating'): pairs of members.
MatingGroups == {<<P1, P2>>, <<P2, P1>>, <<P1, P3>>, <<P3, P1>>}

\* Selection groups of population.select('mutation'): single members.
MutationGroups == {<<P1>>, <<P2>>, <<P3>>}

\* Contents of the directory func_data.params["database"].
Databases == {{}, {"b1", "b3"}}

SeqsUpTo(S, n) == UNION {[1..k -> S] : k \in 0..n}

(***************************************************************************)
(* Mating.bb_lk_exchange                                                   *)
(***************************************************************************)
\* Variant of NextOfOtherType: the test is == instead of !=.
RECURSIVE NextOfSameType(_, _)
NextOfSameType(building_blocks, ty) ==
    IF building_blocks = <<>> THEN <<>>
    ELSE IF ty = Head(building_blocks).type THEN <<Head(building_blocks)>>
    ELSE NextOfSameType(Tail(building_blocks), ty)

\* next(x for x in building_blocks if ty != type(x)): <<x>>, or <<>> when
\* the generator is empty and next raises StopIteration.
RECURSIVE NextOfOtherType(_, _)
NextOfOtherType(building_blocks, ty) ==
    IF building_blocks = <<>> THEN <<>>
    ELSE IF ty # Head(building_blocks).type THEN <<Head(building_blocks)>>
    ELSE NextOfOtherType(Tail(building_blocks), ty)

\* {type(x.topology) for x in (cage1, cage2)}
Topologies(cage1, cage2) == {cage1.topology, cage2.topology}

\* The orders in which iterating the set may yield its elements.
TopologyOrders(S) ==
    {o \in [1..Cardinality(S) -> S] : \A i, j \in DOMAIN o : i # j => o[i] # o[j]}

\* Variant of ExchangeLoop: only offspring1 is added for each topology.
RECURSIVE ExchangeLoopOneOffspring(_, _, _, _, _, _, _)
ExchangeLoopOneOffspring(bb1, cp1, bb2, cp2, n, order, index) ==
    IF index >= Len(order) THEN <<>>
    ELSE <<Cage3(<<bb1, cp1>>, order[index + 1],
                 PathJoinCwd(MatingName(n, index, 1)))>>
         \o ExchangeLoopOneOffspring(bb1, cp1, bb2, cp2, n, order, index + 1)

\* The body of the for loop of bb_lk_exchange, for every index in turn.
RECURSIVE ExchangeLoop(_, _, _, _, _, _, _)
ExchangeLoop(bb1, cp1, bb2, cp2, n, order, index) ==
    IF index >= Len(order) THEN <<>>
    ELSE <<Cage3(<<bb1, cp1>>, order[index + 1],
                 PathJoinCwd(MatingName(n, index, 1))),
           Cage3(<<bb2, cp2>>, order[index + 1],
                 PathJoinCwd(MatingName(n, index, 2)))>>
         \o ExchangeLoop(bb1, cp1, bb2, cp2, n, order, index + 1)

\* bb_lk_exchange(cage1, cage2) with self.n_calls = n, the set of topologies
\* iterated in `order`: what it constructed and the Population it returned,
\* or raised.
bb_lk_exchange(cage1, cage2, n, order) ==
    LET build_block1 == cage1.building_blocks[1]
        counterpart1 == NextOfOtherType(cage2.building_blocks, build_block1.type)
        build_block2 == cage1.building_blocks[2]
        counterpart2 == NextOfOtherType(cage2.building_blocks, build_block2.type)
    IN  IF counterpart1 = <<>> \/ counterpart2 = <<>>
        THEN [raised |-> TRUE, built |-> <<>>, members |-> <<>>]
        ELSE LET built == ExchangeLoop(build_block1, counterpart1[1],
                                       build_block2, counterpart2[1], n, order, 0)
             IN  [raised |-> FALSE, built |-> built,
                  members |-> add_members(<<>>, built)]

(***************************************************************************)
(* Mutation.random_bb                                                      *)
(***************************************************************************)
\* next(x for x in building_blocks if isinstance(x, Linker))
RECURSIVE NextLinker(_)
NextLinker(building_blocks) ==
    IF building_blocks = <<>> THEN <<>>
    ELSE IF Head(building_blocks).type = "Linker" THEN <<Head(building_blocks)>>
    ELSE NextLinker(Tail(building_blocks))

\* random_bb(cage, database) with self.n_calls = n, where np.random.choice
\* picked bb_file.
random_bb(cage, bb_file, n) ==
    LET bb == BuildingBlock(bb_file)
        lk == NextLinker(cage.building_blocks)
    IN  IF lk = <<>>
        THEN [raised |-> TRUE, built |-> <<>>]
        ELSE [raised |-> FALSE,
              built |-> <<Cage4(<<bb, lk[1]>>, cage.topology, cage.optimize,
                                PathJoinCwd(MutationName(n)))>>]

(***************************************************************************)
(* The runners                                                             *)
(***************************************************************************)
\* Attributes of a Mating object: what getattr(self, name) finds.
MatingAttr(name) ==
    IF name = "bb_lk_exchange" THEN "method"
    ELSE IF name \in {"func_data", "num_matings", "n_calls", "name"} THEN "data"
    ELSE "missing"

\* Attributes of a Mutation object.
MutationAttr(name) ==
    IF name = "random_bb" THEN "method"
    ELSE IF name \in {"func_data", "num_mutations", "n_calls", "name"} THEN "data"
    ELSE "missing"

MatingNames == {"bb_lk_exchange", "n_calls", "random_bb"}

MutationNames == {"random_bb", "n_calls", "bb_lk_exchange"}

\* Mating.__init__ / Mutation.__init__
Init ==
    /\ kind \in {"Mating", "Mutation"}
    /\ func_name \in (IF kind = "Mating" THEN MatingNames ELSE MutationNames)
    /\ database \in (IF kind = "Mating" THEN {{}} ELSE Databases)
    /\ num_target \in 0..MaxTarget
    /\ n_calls = 0
    /\ population = Population0
    /\ pc = "idle"
    /\ parent_pool = <<>>
    /\ endless = FALSE
    /\ func = "unbound"
    /\ parents = <<>>
    /\ offspring = <<>>
    /\ offspring_pop = <<>>
    /\ num_count = 0
    /\ result = <<>>
    /\ selected = <<>>
    /\ log = <<>>
    /\ generated = <<>>
    /\ dispatched = 0

config == <<kind, func_name, database, num_target, population>>

Built(cages, n) == [i \in 1..Len(cages) |-> [name |-> cages[i].name, counter |-> n]]

\* The sequences population.select(...) may stand for: every sequence of at
\* most MaxGroups groups that keeps the counter within MaxCalls.
Pools(groups, n) == {p \in SeqsUpTo(groups, MaxGroups) : n + Len(p) <= MaxCalls}

\* The periods of the endless sequences select(...) may stand for: the period
\* is yielded again and again; the counter bound leaves room for as many
\* periods as the target count asks successes.
EndlessPools(groups, n) ==
    {p \in Pools(groups, n) : p # <<>> /\ n + num_target * Len(p) <= MaxCalls}

\* Some iteration order of the topologies of a mating group.
AnyOrder(g) == CHOOSE o \in TopologyOrders(Topologies(g[1], g[2])) : TRUE

\* bb_lk_exchange raises on the group (the order of the set plays no part).
MatingRaises(g) == bb_lk_exchange(g[1], g[2], 0, AnyOrder(g)).raised

\* Longer sequences for a fresh Mating object: five groups, the operator
\* raising on the first and the third and returning the offspring of a
\* single topology on the others.
LongPools(n) ==
    IF n # 0 THEN {}
    ELSE {p \in [1..5 -> MatingGroups] :
            \A i \in 1..5 :
               IF i \in {1, 3} THEN MatingRaises(p[i])
               ELSE /\ ~MatingRaises(p[i])
                    /\ Cardinality(Topologies(p[i][1], p[i][2])) = 1}

\* mating.py 10-11, 14
MatingCall ==
    /\ kind = "Mating"
    /\ pc \in {"idle", "returned"}
    /\ \/ \E pool \in Pools(MatingGroups, n_calls) \cup LongPools(n_calls) :
             /\ parent_pool' = pool
             /\ selected' = pool
             /\ endless' = FALSE
       \/ \E pool \in EndlessPools(MatingGroups, n_calls) :
             /\ parent_pool' = pool
             /\ selected' = pool
             /\ endless' = TRUE
    /\ offspring_pop' = <<>>
    /\ num_count' = 0
    /\ func' = "unbound"
    /\ parents' = <<>>
    /\ offspring' = <<>>
    /\ result' = <<>>
    /\ log' = <<>>
    /\ pc' = "getattr"
    /\ UNCHANGED <<config, n_calls, generated, dispatched>>

\* mating.py 12: getattr finds the attribute
MatingGetattr ==
    /\ kind = "Mating"
    /\ pc = "getattr"
    /\ MatingAttr(func_name) # "missing"
    /\ func' = MatingAttr(func_name)
    /\ pc' = "for"
    /\ UNCHANGED <<config, endless, n_calls, parent_pool, parents, offspring,
                   offspring_pop,
                   num_count, result, selected, log, generated, dispatched>>

\* mating.py 12: getattr raises AttributeError, which nothing catches
MatingGetattrRaises ==
    /\ kind = "Mating"
    /\ pc = "getattr"
    /\ MatingAttr(func_name) = "missing"
    /\ pc' = "raised"
    /\ UNCHANGED <<config, endless, n_calls, parent_pool, func, parents, offspring,
                   offspring_pop,
                   num_count, result, selected, log, generated, dispatched>>

\* mating.py 15-17: the generator yields a group; the counter is incremented
MatingNext ==
    /\ kind = "Mating"
    /\ pc = "for"
    /\ parent_pool # <<>>
    /\ endless => n_calls < MaxCalls
    /\ parents' = Head(parent_pool)
    /\ parent_pool' = IF endless /\ Tail(parent_pool) = <<>> THEN selected
                      ELSE Tail(parent_pool)
    /\ n_calls' = n_calls + 1
    /\ pc' = "try"
    /\ UNCHANGED <<config, endless, func, offspring, offspring_pop, num_count, result,
                   selected, log, generated, dispatched>>

\* mating.py 15: the generator is exhausted
MatingExhausted ==
    /\ kind = "Mating"
    /\ pc = "for"
    /\ parent_pool = <<>>
    /\ pc' = "after"
    /\ UNCHANGED <<config, endless, n_calls, parent_pool, func, parents, offspring,
                   offspring_pop,
                   num_count, result, selected, log, generated, dispatched>>

\* Variant of MatingTryOk: the loop is left only once the count exceeds the
\* target.
MatingTryOkBreaksLate ==
    /\ kind = "Mating"
    /\ pc = "try"
    /\ func = "method"
    /\ \E order \in TopologyOrders(Topologies(parents[1], parents[2])) :
          LET r == bb_lk_exchange(parents[1], parents[2], n_calls, order)
          IN  /\ ~r.raised
              /\ offspring' = r.members
              /\ offspring_pop' = add_members(offspring_pop, r.members)
              /\ generated' = generated \o Built(r.built, n_calls)
    /\ num_count' = num_count + 1
    /\ pc' = IF num_count' > num_target THEN "after" ELSE "for"
    /\ log' = Append(log, "ok")
    /\ dispatched' = dispatched + 1
    /\ UNCHANGED <<config, endless, n_calls, parent_pool, func, parents, result,
                   selected>>

\* mating.py 18-24: the operator returns, its offspring are added
MatingTryOk ==
    /\ kind = "Mating"
    /\ pc = "try"
    /\ func = "method"
    /\ \E order \in TopologyOrders(Topologies(parents[1], parents[2])) :
          LET r == bb_lk_exchange(parents[1], parents[2], n_calls, order)
          IN  /\ ~r.raised
              /\ offspring' = r.members
              /\ offspring_pop' = add_members(offspring_pop, r.members)
              /\ generated' = generated \o Built(r.built, n_calls)
    /\ num_count' = num_count + 1
    /\ pc' = IF num_count' = num_target THEN "after" ELSE "for"
    /\ log' = Append(log, "ok")
    /\ dispatched' = dispatched + 1
    /\ UNCHANGED <<config, endless, n_calls, parent_pool, func, parents, result,
                   selected>>

\* Variant of MatingTryRaises: the handler takes the increment back.
MatingTryRaisesUncounts ==
    /\ kind = "Mating"
    /\ pc = "try"
    /\ \/ func = "data"
       \/ \E order \in TopologyOrders(Topologies(parents[1], parents[2])) :
             bb_lk_exchange(parents[1], parents[2], n_calls, order).raised
    /\ n_calls' = n_calls - 1
    /\ pc' = "for"
    /\ log' = Append(log, "raised")
    /\ dispatched' = dispatched + 1
    /\ UNCHANGED <<config, endless, parent_pool, func, parents, offspring, offspring_pop,
                   num_count, result, selected, generated>>

\* mating.py 18, 25-26: the call raises, the bare except continues
MatingTryRaises ==
    /\ kind = "Mating"
    /\ pc = "try"
    /\ \/ func = "data"
       \/ \E order \in TopologyOrders(Topologies(parents[1], parents[2])) :
             bb_lk_exchange(parents[1], parents[2], n_calls, order).raised
    /\ pc' = "for"
    /\ log' = Append(log, "raised")
    /\ dispatched' = dispatched + 1
    /\ UNCHANGED <<config, endless, n_calls, parent_pool, func, parents, offspring,
                   offspring_pop,
                   num_count, result, selected, generated>>

\* Variant of MatingReturn: the parents are not subtracted.
MatingReturnKeepsAll ==
    /\ kind = "Mating"
    /\ pc = "after"
    /\ result' = offspring_pop
    /\ pc' = "returned"
    /\ UNCHANGED <<config, endless, n_calls, parent_pool, func, parents, offspring,
                   offspring_pop, num_count, selected, log, generated, dispatched>>

\* mating.py 28-29
MatingReturn ==
    /\ kind = "Mating"
    /\ pc = "after"
    /\ result' = difference(offspring_pop, population)
    /\ pc' = "returned"
    /\ UNCHANGED <<config, endless, n_calls, parent_pool, func, parents, offspring,
                   offspring_pop,
                   num_count, selected, log, generated, dispatched>>

\* mutation.py 85-86, 89
MutationCall ==
    /\ kind = "Mutation"
    /\ pc \in {"idle", "returned"}
    /\ \/ \E pool \in Pools(MutationGroups, n_calls) :
             /\ parent_pool' = pool
             /\ selected' = pool
             /\ endless' = FALSE
       \/ \E pool \in EndlessPools(MutationGroups, n_calls) :
             /\ parent_pool' = pool
             /\ selected' = pool
             /\ endless' = TRUE
    /\ offspring_pop' = <<>>
    /\ num_count' = 0
    /\ func' = "unbound"
    /\ parents' = <<>>
    /\ offspring' = <<>>
    /\ result' = <<>>
    /\ log' = <<>>
    /\ pc' = "getattr"
    /\ UNCHANGED <<config, n_calls, generated, dispatched>>

\* mutation.py 87: getattr finds the attribute
MutationGetattr ==
    /\ kind = "Mutation"
    /\ pc = "getattr"
    /\ MutationAttr(func_name) # "missing"
    /\ func' = MutationAttr(func_name)
    /\ pc' = "for"
    /\ UNCHANGED <<config, endless, n_calls, parent_pool, parents, offspring,
                   offspring_pop,
                   num_count, result, selected, log, generated, dispatched>>

\* Variant of MutationGetattrRaises: the error is swallowed and the runner
\* goes on to return its empty output.
MutationGetattrRaisesCaught ==
    /\ kind = "Mutation"
    /\ pc = "getattr"
    /\ MutationAttr(func_name) = "missing"
    /\ pc' = "after"
    /\ UNCHANGED <<config, endless, n_calls, parent_pool, func, parents, offspring,
                   offspring_pop, num_count, result, selected, log, generated,
                   dispatched>>

\* mutation.py 87: getattr raises AttributeError, which nothing catches
MutationGetattrRaises ==
    /\ kind = "Mutation"
    /\ pc = "getattr"
    /\ MutationAttr(func_name) = "missing"
    /\ pc' = "raised"
    /\ UNCHANGED <<config, endless, n_calls, parent_pool, func, parents, offspring,
                   offspring_pop,
                   num_count, result, selected, log, generated, dispatched>>

\* mutation.py 90-92: the generator yields a parent; the counter is incremented
MutationNext ==
    /\ kind = "Mutation"
    /\ pc = "for"
    /\ parent_pool # <<>>
    /\ endless => n_calls < MaxCalls
    /\ parents' = Head(parent_pool)
    /\ parent_pool' = IF endless /\ Tail(parent_pool) = <<>> THEN selected
                      ELSE Tail(parent_pool)
    /\ n_calls' = n_calls + 1
    /\ pc' = "try"
    /\ UNCHANGED <<config, endless, func, offspring, offspring_pop, num_count, result,
                   selected, log, generated, dispatched>>

\* Variant of MutationExhausted: an unmet quota is reported as an error.
MutationExhaustedRaises ==
    /\ kind = "Mutation"
    /\ pc = "for"
    /\ parent_pool = <<>>
    /\ pc' = IF num_count < num_target THEN "raised" ELSE "after"
    /\ UNCHANGED <<config, endless, n_calls, parent_pool, func, parents, offspring,
                   offspring_pop, num_count, result, selected, log, generated,
                   dispatched>>

\* mutation.py 90: the generator is exhausted
MutationExhausted ==
    /\ kind = "Mutation"
    /\ pc = "for"
    /\ parent_pool = <<>>
    /\ pc' = "after"
    /\ UNCHANGED <<config, endless, n_calls, parent_pool, func, parents, offspring,
                   offspring_pop,
                   num_count, result, selected, log, generated, dispatched>>

\* Variant of MutationTryOk: the mutant is added with add_members, which
\* skips a mutant equal to one already in the output.
MutationTryOkDedupes ==
    /\ kind = "Mutation"
    /\ pc = "try"
    /\ func = "method"
    /\ \E bb_file \in database :
          LET r == random_bb(parents[1], bb_file, n_calls)
          IN  /\ ~r.raised
              /\ offspring' = r.built
              /\ offspring_pop' = add_members(offspring_pop, r.built)
              /\ generated' = generated \o Built(r.built, n_calls)
    /\ num_count' = num_count + 1
    /\ pc' = IF num_count' = num_target THEN "after" ELSE "for"
    /\ log' = Append(log, "ok")
    /\ dispatched' = dispatched + 1
    /\ UNCHANGED <<config, endless, n_calls, parent_pool, func, parents, result,
                   selected>>

\* Variant of MutationTryOk: the operator writes the substitute into the
\* parent instead of building from a copy of its slots.
MutationTryOkInPlace ==
    /\ kind = "Mutation"
    /\ pc = "try"
    /\ func = "method"
    /\ \E bb_file \in database :
          LET r == random_bb(parents[1], bb_file, n_calls)
          IN  /\ ~r.raised
              /\ offspring' = r.built
              /\ offspring_pop' = Append(offspring_pop, r.built[1])
              /\ generated' = generated \o Built(r.built, n_calls)
              /\ population' =
                    [i \in 1..Len(population) |->
                        IF population[i] = parents[1]
                        THEN [population[i] EXCEPT
                                 !.building_blocks = r.built[1].building_blocks]
                        ELSE population[i]]
    /\ num_count' = num_count + 1
    /\ pc' = IF num_count' = num_target THEN "after" ELSE "for"
    /\ log' = Append(log, "ok")
    /\ dispatched' = dispatched + 1
    /\ UNCHANGED <<kind, func_name, database, num_target, n_calls, parent_pool,
                   endless, func, parents, result, selected>>

\* mutation.py 93-99: the operator returns, the mutant is appended
MutationTryOk ==
    /\ kind = "Mutation"
    /\ pc = "try"
    /\ func = "method"
    /\ \E bb_file \in database :
          LET r == random_bb(parents[1], bb_file, n_calls)
          IN  /\ ~r.raised
              /\ offspring' = r.built
              /\ offspring_pop' = Append(offspring_pop, r.built[1])
              /\ generated' = generated \o Built(r.built, n_calls)
    /\ num_count' = num_count + 1
    /\ pc' = IF num_count' = num_target THEN "after" ELSE "for"
    /\ log' = Append(log, "ok")
    /\ dispatched' = dispatched + 1
    /\ UNCHANGED <<config, endless, n_calls, parent_pool, func, parents, result,
                   selected>>

\* Variant of MutationTryRaises: the attempt was counted before the call.
MutationTryRaisesCounts ==
    /\ kind = "Mutation"
    /\ pc = "try"
    /\ \/ func = "data"
       \/ database = {}
       \/ \E bb_file \in database : random_bb(parents[1], bb_file, n_calls).raised
    /\ num_count' = num_count + 1
    /\ pc' = "for"
    /\ log' = Append(log, "raised")
    /\ dispatched' = dispatched + 1
    /\ UNCHANGED <<config, endless, n_calls, parent_pool, func, parents, offspring,
                   offspring_pop, result, selected, generated>>

\* mutation.py 93, 101-102: the call raises, the bare except continues
MutationTryRaises ==
    /\ kind = "Mutation"
    /\ pc = "try"
    /\ \/ func = "data"
       \/ database = {}
       \/ \E bb_file \in database : random_bb(parents[1], bb_file, n_calls).raised
    /\ pc' = "for"
    /\ log' = Append(log, "raised")
    /\ dispatched' = dispatched + 1
    /\ UNCHANGED <<config, endless, n_calls, parent_pool, func, parents, offspring,
                   offspring_pop,
                   num_count, result, selected, generated>>

\* mutation.py 104-106
MutationReturn ==
    /\ kind = "Mutation"
    /\ pc = "after"
    /\ result' = difference(offspring_pop, population)
    /\ pc' = "returned"
    /\ UNCHANGED <<config, endless, n_calls, parent_pool, func, parents, offspring,
                   offspring_pop,
                   num_count, selected, log, generated, dispatched>>

Next ==
    \/ MatingCall
    \/ MatingGetattr
    \/ MatingGetattrRaises
    \/ MatingNext
    \/ MatingExhausted
    \/ MatingTryOk
    \/ MatingTryRaises
    \/ MatingReturn
    \/ MutationCall
    \/ MutationGetattr
    \/ MutationGetattrRaises
    \/ MutationNext
    \/ MutationExhausted
    \/ MutationTryOk
    \/ MutationTryRaises
    \/ MutationReturn

Spec == Init /\ [][Next]_vars

\* The statements of __call__: once called, the interpreter runs them.
Run ==
    \/ MatingGetattr \/ MatingGetattrRaises \/ MatingNext \/ MatingExhausted
    \/ MatingTryOk \/ MatingTryRaises \/ MatingReturn
    \/ MutationGetattr \/ MutationGetattrRaises \/ MutationNext
    \/ MutationExhausted \/ MutationTryOk \/ MutationTryRaises
    \/ MutationReturn

FairSpec == Init /\ [][Next]_vars /\ WF_vars(Run)

(***************************************************************************)
(* Vocabulary of the properties.                                           *)
(***************************************************************************)
Range(seq) == {seq[i] : i \in 1..Len(seq)}

\* The k-th group of the sequence select() stands for.
SelectedAt(k) ==
    IF endless THEN selected[((k - 1) % Len(selected)) + 1] ELSE selected[k]

\* The value of n_calls when the current invocation began.
StartCalls == n_calls - Len(log) - (IF pc = "try" THEN 1 ELSE 0)

\* The configured operator, dispatched on group g, returns.
GroupSucceeds(g) ==
    IF kind = "Mating"
    THEN MatingAttr(func_name) = "method" /\ ~MatingRaises(g)
    ELSE /\ MutationAttr(func_name) = "method"
         /\ database # {}
         /\ NextLinker(g[1].building_blocks) # <<>>

SuccessCount(pool) == Cardinality({i \in 1..Len(pool) : GroupSucceeds(pool[i])})

OkCount(outcomes) == Cardinality({i \in 1..Len(outcomes) : outcomes[i] = "ok"})

\* The names an attempt made with counter c may give to its offspring.
NamesOfAttempt(c) ==
    IF kind = "Mating"
    THEN {PathJoinCwd(MatingName(c, index, pair)) : index \in 0..1, pair \in 1..2}
    ELSE {PathJoinCwd(MutationName(c))}

\* The counters that the names of the members carry.
NameCounters(members) ==
    {c \in 0..n_calls : \E m \in Range(members) : m.name \in NamesOfAttempt(c)}

Missing ==
    IF kind = "Mating" THEN MatingAttr(func_name) = "missing"
    ELSE MutationAttr(func_name) = "missing"

(***************************************************************************)
(* C1  Quota bound: in every invocation of either runner the number of     *)
(* successful attempts never exceeds the target count, for every target    *)
(* count from 0 on, and a returned invocation made exactly target count    *)
(* successful attempts whenever the selection sequence held at least that  *)
(* many groups on which the operator succeeds.                             *)
(***************************************************************************)
QuotaBound ==
    /\ num_count <= num_target
    /\ (pc = "returned" /\ SuccessCount(selected) >= num_target)
           => num_count = num_target

(***************************************************************************)
(* C2  Novelty: no member of the returned Collection is domain-equal to a  *)
(* member of the parent Collection, whichever way the loop was left.       *)
(***************************************************************************)
Novelty ==
    pc = "returned" => \A i \in 1..Len(result) : ~Contains(population, result[i])

\* The quota ended the loop, the output held a copy of a parent, and
\* something was returned.
NoveltyWitness ==
    /\ pc = "returned"
    /\ parent_pool # <<>>
    /\ result # <<>>
    /\ \E i \in 1..Len(offspring_pop) : Contains(population, offspring_pop[i])

NamesUnique ==
    /\ \A i, j \in 1..Len(generated) :
          i # j => generated[i].name # generated[j].name
    /\ \A i \in 1..Len(generated) :
          /\ generated[i].counter \in 1..n_calls
          /\ generated[i].name \in NamesOfAttempt(generated[i].counter)
          /\ \A c \in 0..n_calls :
                generated[i].name \in NamesOfAttempt(c) => c = generated[i].counter
    /\ \A c, d \in 0..n_calls : \A index \in 0..1, pair \in 1..2 :
          PathJoinCwd(MatingName(c, index, pair)) # PathJoinCwd(MutationName(d))

\* Offspring of an earlier invocation and of the current one are on record.
NamesWitness ==
    /\ pc = "returned"
    /\ Len(generated) >= 2
    /\ generated[1].counter <= StartCalls
    /\ generated[Len(generated)].counter > StartCalls

(***************************************************************************)
(* C5  Mating fan-out: a successful bb_lk_exchange on parents with t       *)
(* distinct topology types (t = 1 or 2) returns exactly 2t offspring,      *)
(* named with the 2t pairs of a topology index in 0..t-1 and a pair index  *)
(* in {1, 2}, all distinct.                                                *)
(***************************************************************************)
FanOut ==
    (/\ kind = "Mating"
     /\ pc \in {"for", "after", "returned"}
     /\ log # <<>>
     /\ log[Len(log)] = "ok")
    => LET t == Cardinality(Topologies(parents[1], parents[2]))
           names == {PathJoinCwd(MatingName(n_calls, index, pair)) :
                        index \in 0..(t - 1), pair \in 1..2}
       IN  /\ t \in {1, 2}
           /\ Len(offspring) = 2 * t
           /\ {offspring[i].name : i \in 1..Len(offspring)} = names
           /\ Cardinality(names) = 2 * t

\* An attempt on parents of two topology types has returned.
FanOutWitness ==
    /\ kind = "Mating"
    /\ pc = "for"
    /\ log # <<>>
    /\ log[Len(log)] = "ok"
    /\ Cardinality(Topologies(parents[1], parents[2])) = 2
    /\ Len(offspring) = 4

FatalConfigError ==
    /\ [](Missing =>
             /\ pc \in {"idle", "getattr", "raised"}
             /\ parent_pool = selected
             /\ n_calls = 0
             /\ dispatched = 0
             /\ result = <<>>)
    /\ [](pc = "raised" => Missing)
    /\ [][/\ (pc = "getattr" /\ Missing) => pc' = "raised"
          /\ pc' = "raised" => n_calls' = n_calls
          /\ pc # "raised"]_vars

\* The lookup has raised with a non-empty selection sequence at hand.
FatalWitness ==
    /\ pc = "raised"
    /\ selected # <<>>

(***************************************************************************)
(* C8  Concrete scenario: a Mating object with target count 2 and counter  *)
(* 0 is given five groups; the operator raises on groups 1 and 3 and       *)
(* succeeds with one topology, and offspring equal to no parent, on        *)
(* groups 2, 4 and 5.  The loop stops after attempt 4 with the counter at  *)
(* 4 and group 5 not drawn.                                                *)
(***************************************************************************)
OneTopologyNovel(g) ==
    /\ ~MatingRaises(g)
    /\ Cardinality(Topologies(g[1], g[2])) = 1
    /\ \A m \in Range(bb_lk_exchange(g[1], g[2], 0, AnyOrder(g)).members) :
          ~Contains(population, m)

Scenario ==
    /\ kind = "Mating"
    /\ func = "method"
    /\ num_target = 2
    /\ pc = "returned"
    /\ StartCalls = 0
    /\ Len(selected) = 5
    /\ \A i \in {1, 3} : MatingRaises(selected[i])
    /\ \A i \in {2, 4, 5} : OneTopologyNovel(selected[i])

\* The offspring of attempt 4 that equal an offspring of attempt 2.
ScenarioRepeats ==
    LET off2 == bb_lk_exchange(selected[2][1], selected[2][2], 2,
                               AnyOrder(selected[2])).members
        off4 == bb_lk_exchange(selected[4][1], selected[4][2], 4,
                               AnyOrder(selected[4])).members
    IN  {j \in 1..Len(off4) : Contains(off2, off4[j])}

\* C8 as stated: exactly 4 offspring are returned, named with 2 and 4.
ScenarioAsStated ==
    Scenario =>
        /\ n_calls = 4
        /\ parent_pool = <<selected[5]>>
        /\ Len(result) = 4
        /\ NameCounters(result) = {2, 4}

\* C8 amended: the offspring of attempt 4 that are domain-equal to one of
\* attempt 2 are not added again; 4 offspring named with 2 and 4 are
\* returned when there is none.
ScenarioAmended ==
    Scenario =>
        /\ n_calls = 4
        /\ log = <<"raised", "ok", "raised", "ok">>
        /\ parent_pool = <<selected[5]>>
        /\ Len(result) = 4 - Cardinality(ScenarioRepeats)
        /\ NameCounters(result) =
              {2} \cup (IF Cardinality(ScenarioRepeats) < 2 THEN {4} ELSE {})

ScenarioWitness ==
    /\ Scenario
    /\ Len(result) = 4
    /\ NameCounters(result) = {2, 4}

(***************************************************************************)
(* C9  Exhaustion is not an error: when the selection sequence ends after  *)
(* k successful attempts, k below the target count, the runner returns,    *)
(* raising nothing, the offspring of exactly those k attempts less the     *)
(* ones equal to a parent.                                                 *)
(***************************************************************************)
Exhaustion ==
    /\ []((pc = "returned" /\ num_count < num_target) =>
             /\ parent_pool = <<>>
             /\ Len(log) = Len(selected)
             /\ num_count = SuccessCount(selected)
             /\ num_count = OkCount(log)
             /\ \A i \in 1..Len(log) :
                   (log[i] = "ok") = GroupSucceeds(selected[i])
             /\ NameCounters(offspring_pop)
                   \subseteq {StartCalls + i : i \in {j \in 1..Len(log) : log[j] = "ok"}}
             /\ kind = "Mutation" => Len(offspring_pop) = num_count
             /\ \A m \in Range(offspring_pop) :
                   Contains(population, m) \/ Contains(result, m)
             /\ \A m \in Range(result) :
                   m \in Range(offspring_pop) /\ ~Contains(population, m))
    /\ [][/\ (pc = "for" /\ parent_pool = <<>>) => pc' = "after"
          /\ pc = "after" => pc' = "returned"]_vars

\* Fewer successes than asked for, and a non-empty Collection came back.
ExhaustionWitness ==
    /\ pc = "returned"
    /\ 0 < num_count
    /\ num_count < num_target
    /\ "raised" \in Range(log)
    /\ result # <<>>

(***************************************************************************)
(* C10  Parent isolation: no step of either runner or of its operator      *)
(* changes the input population: the same members in the same order, each  *)
(* with the components, topology and name it had.                          *)
(***************************************************************************)
ParentIsolation ==
    /\ [][population' = population]_vars
    /\ [](pc = "try" => \A i \in 1..Len(parents) : parents[i] \in Range(population))

\* An invocation with a successful and a failed attempt has returned.
IsolationWitness ==
    /\ pc = "returned"
    /\ "ok" \in Range(log)
    /\ "raised" \in Range(log)
    /\ population = Population0

(***************************************************************************)
(* C11  Termination: for every target count from 0 on, an invocation on a  *)
(* selection sequence that is finite, or that holds at least target count  *)
(* groups on which the operator succeeds, eventually returns; on an        *)
(* endless sequence it is the target count that ends the loop, so a group  *)
(* is drawn only while fewer than target count attempts have succeeded.    *)
(***************************************************************************)
\* The sequence is finite or supplies target count successes.
Supplied == ~endless \/ num_target = 0 \/ SuccessCount(selected) >= 1

\* The configured name is that of an operator of the runner.
Resolved ==
    IF kind = "Mating" THEN MatingAttr(func_name) = "method"
    ELSE MutationAttr(func_name) = "method"

Termination ==
    /\ []((pc = "getattr" /\ Resolved /\ Supplied) => <>(pc = "returned"))
    /\ []((pc = "try" /\ Resolved /\ endless /\ Supplied)
             => num_count < num_target)

(***************************************************************************)
(* C12  Stop as soon as the quota is met: while the success count of the   *)
(* invocation equals the target count no group is drawn from the selection *)
(* sequence, no operator is dispatched and n_calls is not incremented; and *)
(* the loop is left only with the count at the target count or with the    *)
(* selection sequence exhausted.                                           *)
(***************************************************************************)
StopAtQuota ==
    /\ [][(Resolved /\ pc \in {"for", "try", "after"} /\ num_count = num_target) =>
             /\ n_calls' = n_calls
             /\ dispatched' = dispatched
             /\ parent_pool' = parent_pool]_vars
    /\ [](pc \in {"after", "returned"} =>
             \/ num_count = num_target
             \/ ~endless /\ parent_pool = <<>>)

(***************************************************************************)
(* C13  Collection uniqueness of the result: the Collection either runner  *)
(* returns holds no two domain-equal members, also when two successful     *)
(* attempts of the invocation produced domain-equal offspring.             *)
(***************************************************************************)
ResultUnique ==
    pc = "returned" =>
        \A i, j \in 1..Len(result) : i # j => ~DomainEq(result[i], result[j])

(***************************************************************************)
(* C14  Mutation operator result: on a parent with a Linker slot and with  *)
(* a non-empty database random_bb succeeds; it calls the constructor with  *)
(* the three arguments of the domain interface (components, topology type, *)
(* path) and returns one candidate made of a substitute from the database  *)
(* and the parent's Linker, with the parent's topology type and the name   *)
(* mutation_<n_calls>.mol.                                                 *)
(***************************************************************************)
HasLinker(cage) ==
    \E i \in 1..Len(cage.building_blocks) : cage.building_blocks[i].type = "Linker"

MutationResult ==
    (/\ kind = "Mutation"
     /\ func = "method"
     /\ pc \in {"for", "after", "returned"}
     /\ log # <<>>)
    => IF log[Len(log)] = "raised"
       THEN ~HasLinker(parents[1]) \/ database = {}
       ELSE /\ HasLinker(parents[1]) /\ database # {}
            /\ Len(offspring) = 1
            /\ offspring[1].nargs = 3
            /\ offspring[1].building_blocks[1]
                  \in {BuildingBlock(f) : f \in database}
            /\ offspring[1].building_blocks[2] \in Range(parents[1].building_blocks)
            /\ offspring[1].building_blocks[2].type = "Linker"
            /\ offspring[1].topology = parents[1].topology
            /\ offspring[1].name = PathJoinCwd(MutationName(n_calls))

(***************************************************************************)
(* C15  An unresolvable operator is never a per-attempt failure: with a    *)
(* configured name that does not resolve to a callable operator, a data    *)
(* attribute of the runner included, the invocation fails fatally; no      *)
(* attempt is made and discarded, and the counter does not move.           *)
(***************************************************************************)
UnresolvedIsFatal ==
    ~Resolved =>
        /\ pc \in {"idle", "getattr", "raised"}
        /\ log = <<>>
        /\ n_calls = 0

(***************************************************************************)
(* C16  Deterministic naming: a mating attempt made with the same counter  *)
(* on the same parents gives the same name to the same offspring; with two *)
(* topology types the topology of index 0 and of index 1 is the same in    *)
(* every run.                                                              *)
(***************************************************************************)
DeterministicNaming ==
    (kind = "Mating" /\ pc = "try" /\ func = "method") =>
        \A o1, o2 \in TopologyOrders(Topologies(parents[1], parents[2])) :
            bb_lk_exchange(parents[1], parents[2], n_calls, o1)
                = bb_lk_exchange(parents[1], parents[2], n_calls, o2)

(***************************************************************************)
(* C17  Cross-matching rule of bb_lk_exchange: the offspring with pair     *)
(* index p (1 or 2) is made of the p-th component of parent 1 and the      *)
(* first component of parent 2 of another type; so every offspring has two *)
(* components of different types, one of each parent; the attempt raises,  *)
(* and constructs nothing, exactly when some component of parent 1 has no  *)
(* component of another type in parent 2.                                  *)
(***************************************************************************)
\* The slots of cage2 whose component is not of the type of slot p of cage1.
OtherTyped(cage1, cage2, p) ==
    {j \in 1..Len(cage2.building_blocks) :
        cage2.building_blocks[j].type # cage1.building_blocks[p].type}

Lowest(S) == CHOOSE j \in S : \A k \in S : j <= k

CrossMatching ==
    /\ []((/\ kind = "Mating"
           /\ func = "method"
           /\ pc \in {"for", "after", "returned"}
           /\ log # <<>>)
          => LET c1 == parents[1]
                 c2 == parents[2]
             IN  /\ (log[Len(log)] = "raised")
                       = (\E p \in 1..2 : OtherTyped(c1, c2, p) = {})
                 /\ log[Len(log)] = "ok" =>
                       /\ \A p \in 1..2 :
                             \E m \in Range(offspring) :
                                m.name = PathJoinCwd(MatingName(n_calls, 0, p))
                       /\ \A m \in Range(offspring) : \A p \in 1..2 :
                             (\E index \in 0..1 :
                                 m.name = PathJoinCwd(MatingName(n_calls, index, p)))
                             => /\ m.building_blocks[1] = c1.building_blocks[p]
                                /\ m.building_blocks[2] =
                                      c2.building_blocks[Lowest(OtherTyped(c1, c2, p))]
                                /\ m.building_blocks[1].type
                                      # m.building_blocks[2].type)
    /\ [][(kind = "Mating" /\ func = "method" /\ log' = Append(log, "raised"))
             => generated' = generated /\ offspring_pop' = offspring_pop]_vars

\* An attempt has succeeded whose second offspring took the second
\* component of parent 2, and an attempt before it had raised.
CrossWitness ==
    /\ kind = "Mating"
    /\ pc = "for"
    /\ Len(log) >= 2
    /\ log[Len(log) - 1] = "raised"
    /\ log[Len(log)] = "ok"
    /\ Len(offspring) = 2
    /\ offspring[2].building_blocks[2] = parents[2].building_blocks[2]

(***************************************************************************)
(* C18  Output size of the mutation runner: a successful attempt adds one  *)
(* entry to the output and a failed one none, so the output always holds   *)
(* as many entries as attempts have succeeded, and the returned Collection *)
(* at most as many, fewer only by the members equal to a parent.           *)
(***************************************************************************)
MutationOutputSize ==
    kind = "Mutation" =>
        /\ Len(offspring_pop) = num_count
        /\ num_count = OkCount(log)
        /\ pc = "returned" =>
              /\ Len(result) <= num_count
              /\ Len(result) = num_count
                    - Cardinality({i \in 1..Len(offspring_pop) :
                                      Contains(population, offspring_pop[i])})

\* Two attempts succeeded, one failed, and one mutant equal to a parent was
\* removed.
OutputSizeWitness ==
    /\ kind = "Mutation"
    /\ pc = "returned"
    /\ num_count = 2
    /\ Len(result) = 1
    /\ "raised" \in Range(log)

====
